---- MODULE Spec2Model ----
(***************************************************************************)
(* kvp: KeyValuePair<TKey, TValue>, a pair whose PartialEq, Eq,            *)
(* PartialOrd, Ord and Hash are forwarded to the key alone (src/src/lib.rs)*)
(*                                                                         *)
(* The crate is generic in TKey.  The model instantiates TKey twice:       *)
(*   "i32"  a key type with Eq, Ord and Hash (the type used by the crate's *)
(*          doc example and by its test), and                              *)
(*   "f64"  a key type with PartialEq and PartialOrd only, whose NaN is    *)
(*          unequal to itself and incomparable with everything.            *)
(* ktype is fixed for a whole behaviour, as a type parameter is for a      *)
(* program.  Operations whose trait bound the key type does not satisfy    *)
(* are not enabled (the program would not compile).                        *)
(***************************************************************************)
EXTENDS Integers, Sequences, FiniteSets, Bags, TLC

VARIABLES
    ktype,      \* the instantiation of TKey: "i32" or "f64"
    regs,       \* the pairs held by the program's local variables
    last,       \* the last operation applied: [op, args, res]
    orig,       \* the pair that is cloned
    dup,        \* its clone, or NoPair before the first clone
    snap,       \* orig as it was when it was last cloned, or NoPair
    touched,    \* which of orig and dup were assigned to since that clone
    vec,        \* Vec<KeyValuePair<i32, V>> of the sorting scenario
    input,      \* the contents of vec when sort() was called
    sorted,     \* TRUE once vec.sort() has returned
    heap,       \* BinaryHeap<KeyValuePair<i32, V>>: its backing vector
    pushed,     \* every pair pushed so far, in push order
    popped,     \* every pair popped so far, in pop order
    kind,       \* container kind of the side-by-side run
    bareHeap,   \* BinaryHeap<i32> run side by side with heap
    set,        \* HashSet<KeyValuePair<i32, V>>: bucket -> chain
    bareSet,    \* HashSet<i32> run side by side with set
    tree,       \* BTreeSet<KeyValuePair<i32, V>>: its single leaf
    bareTree,   \* BTreeSet<i32> run side by side with tree
    answers     \* what the last operation returned: [op, pair, bare]

vars == <<ktype, regs, last, orig, dup, snap, touched, vec, input, sorted,
          heap, pushed, popped, kind, bareHeap, set, bareSet, tree,
          bareTree, answers>>

opVars == <<regs, last>>
cloneVars == <<orig, dup, snap, touched>>
sortVars == <<vec, input, sorted>>
heapVars == <<heap, pushed, popped>>
twinVars == <<kind, bareHeap, set, bareSet, tree, bareTree, answers>>

----------------------------------------------------------------------------
(* Bounds of the model                                                     *)

MaxKey == 2
MaxLen == 4
MaxHeap == 4
NumBuckets == 2

----------------------------------------------------------------------------
(* The key and value types                                                 *)

\* i32 keys of the operation-level runs
IntKeys == 0 .. MaxKey

\* the f64 NaN, encoded as the integer just above the finite keys
NaN == MaxKey + 1

\* f64 keys: the finite ones and NaN
FloatKeys == IntKeys \cup {NaN}

Keys == IF ktype = "i32" THEN IntKeys ELSE FloatKeys

\* TValue: a payload type with no equality, ordering or hashing of its own
Values == {"A", "B"}

\* the program's local variables holding pairs
Regs == {"a", "b", "c"}

\* Option<T>
None == <<>>
Some(x) == <<x>>

\* TKey: PartialEq
KeyEq(k1, k2) ==
    IF ktype = "f64" THEN k1 # NaN /\ k2 # NaN /\ k1 = k2
    ELSE k1 = k2

\* TKey: Ord (i32 only)
KeyCmp(k1, k2) ==
    IF k1 < k2 THEN "Less" ELSE IF k1 = k2 THEN "Equal" ELSE "Greater"

\* TKey: PartialOrd
KeyPartialCmp(k1, k2) ==
    IF ktype = "f64" /\ (k1 = NaN \/ k2 = NaN) THEN None
    ELSE Some(KeyCmp(k1, k2))

\* A Hasher's state: the sequence of words written into it so far.  Every
\* concrete hasher is a function of this sequence.
HasherStates == {<<>>, <<7>>}

\* TKey: Hash (i32 only): i32::hash writes the key into the hasher
KeyHash(k, state) == Append(state, k)

KeyClone(k) == k
ValueClone(v) == v

----------------------------------------------------------------------------
(* KeyValuePair                                                            *)

\* struct KeyValuePair { pub key, pub value }: the struct literal
KeyValuePair(k, v) == [key |-> k, value |-> v]

MutNewDropsValue(key, value) == KeyValuePair(key, "A")
\* KeyValuePair::new
KvpNew(key, value) == KeyValuePair(key, value)

MutEqWholePair(self, other) ==
    KeyEq(self.key, other.key) /\ self.value = other.value
\* impl PartialEq: eq
KvpEq(self, other) == KeyEq(self.key, other.key)

MutPartialCmpWithValue(self, other) ==
    IF KeyPartialCmp(self.key, other.key) = Some("Equal")
         /\ self.value # other.value
    THEN None
    ELSE KeyPartialCmp(self.key, other.key)
MutPartialCmpReversed(self, other) == KeyPartialCmp(other.key, self.key)
\* impl PartialOrd: partial_cmp
KvpPartialCmp(self, other) == KeyPartialCmp(self.key, other.key)

MutCmpThenValue(self, other) ==
    IF KeyCmp(self.key, other.key) # "Equal" THEN KeyCmp(self.key, other.key)
    ELSE IF self.value = other.value THEN "Equal"
    ELSE IF self.value = "A" THEN "Less" ELSE "Greater"
\* impl Ord: cmp
KvpCmp(self, other) == KeyCmp(self.key, other.key)

MutHashWithValue(self, state) ==
    Append(KeyHash(self.key, state), IF self.value = "A" THEN 0 ELSE 1)
\* impl Hash: hash
KvpHash(self, state) == KeyHash(self.key, state)

MutCloneKeyOnly(self) == [key |-> KeyClone(self.key), value |-> "A"]
\* impl Clone: clone
KvpClone(self) ==
    [key |-> KeyClone(self.key), value |-> ValueClone(self.value)]

\* PartialOrd::lt and PartialOrd::le, the provided methods of the impl
KvpLt(a, b) == KvpPartialCmp(a, b) = Some("Less")
KvpLe(a, b) == KvpPartialCmp(a, b) \in {Some("Less"), Some("Equal")}

\* the same provided methods on a bare key
KeyLt(a, b) == KeyPartialCmp(a, b) = Some("Less")
KeyLe(a, b) == KeyPartialCmp(a, b) \in {Some("Less"), Some("Equal")}

Pairs == {KeyValuePair(k, v) : k \in Keys, v \in Values}

----------------------------------------------------------------------------
(* Initial state                                                           *)

NoOp == [op |-> "none", args |-> <<>>, res |-> <<>>]
NoPair == <<>>

InitRest ==
    /\ last = NoOp
    /\ dup = NoPair
    /\ snap = NoPair
    /\ touched = {}
    /\ vec = <<>>
    /\ input = <<>>
    /\ sorted = FALSE
    /\ heap = <<>>
    /\ pushed = <<>>
    /\ popped = <<>>
    /\ bareHeap = <<>>
    /\ set = [b \in 0 .. NumBuckets - 1 |-> <<>>]
    /\ bareSet = [b \in 0 .. NumBuckets - 1 |-> <<>>]
    /\ tree = <<>>
    /\ bareTree = <<>>
    /\ answers = [op |-> "none", pair |-> None, bare |-> None]

\* the operation-level runs: either key type, any pairs in the locals
Init ==
    /\ ktype \in {"i32", "f64"}
    /\ regs \in [Regs -> Pairs]
    /\ orig = KeyValuePair(0, "A")
    /\ kind = "none"
    /\ InitRest

----------------------------------------------------------------------------
(* Operations on pairs held in local variables                             *)

\* let r_i = KeyValuePair::new(k, v)
New(i, k, v) ==
    /\ regs' = [regs EXCEPT ![i] = KvpNew(k, v)]
    /\ last' = [op |-> "new", args |-> <<i, k, v>>, res |-> KvpNew(k, v)]
    /\ UNCHANGED <<ktype, cloneVars, sortVars, heapVars, twinVars>>

\* r_i == r_j
Eq(i, j) ==
    /\ last' = [op |-> "eq", args |-> <<i, j>>,
                res |-> KvpEq(regs[i], regs[j])]
    /\ UNCHANGED <<ktype, regs, cloneVars, sortVars, heapVars, twinVars>>

\* r_i.partial_cmp(&r_j)
PartialCmp(i, j) ==
    /\ last' = [op |-> "partial_cmp", args |-> <<i, j>>,
                res |-> KvpPartialCmp(regs[i], regs[j])]
    /\ UNCHANGED <<ktype, regs, cloneVars, sortVars, heapVars, twinVars>>

\* r_i.cmp(&r_j): needs TKey: Ord
Cmp(i, j) ==
    /\ ktype = "i32"
    /\ last' = [op |-> "cmp", args |-> <<i, j>>,
                res |-> KvpCmp(regs[i], regs[j])]
    /\ UNCHANGED <<ktype, regs, cloneVars, sortVars, heapVars, twinVars>>

\* r_i.hash(&mut h) with h in state h0: needs TKey: Hash
Hash(i, h0) ==
    /\ ktype = "i32"
    /\ last' = [op |-> "hash", args |-> <<i, h0>>,
                res |-> KvpHash(regs[i], h0)]
    /\ UNCHANGED <<ktype, regs, cloneVars, sortVars, heapVars, twinVars>>

Next ==
    \/ \E i \in Regs, k \in Keys, v \in Values : New(i, k, v)
    \/ \E i, j \in Regs : Eq(i, j)
    \/ \E i, j \in Regs : PartialCmp(i, j)
    \/ \E i, j \in Regs : Cmp(i, j)
    \/ \E i \in Regs, h0 \in HasherStates : Hash(i, h0)

Spec == Init /\ [][Next]_vars

----------------------------------------------------------------------------
(* Duplication and field assignment                                        *)
(*   let mut orig = ...; let mut dup = orig.clone(); orig.key = ...; ...   *)

\* the locals start out holding one fixed pair where they are not used
IdleRegs == [r \in Regs |-> KeyValuePair(0, "A")]

InitClone ==
    /\ ktype \in {"i32", "f64"}
    /\ regs = IdleRegs
    /\ orig \in Pairs
    /\ kind = "none"
    /\ InitRest

\* dup = orig.clone()
Clone ==
    /\ dup' = KvpClone(orig)
    /\ snap' = orig
    /\ touched' = {}
    /\ UNCHANGED <<ktype, orig, opVars, sortVars, heapVars, twinVars>>

\* orig.key = k
SetOrigKey(k) ==
    /\ orig' = [orig EXCEPT !.key = k]
    /\ touched' = touched \cup {"orig"}
    /\ UNCHANGED <<ktype, dup, snap, opVars, sortVars, heapVars, twinVars>>

\* orig.value = v
SetOrigValue(v) ==
    /\ orig' = [orig EXCEPT !.value = v]
    /\ touched' = touched \cup {"orig"}
    /\ UNCHANGED <<ktype, dup, snap, opVars, sortVars, heapVars, twinVars>>

\* dup.key = k
SetDupKey(k) ==
    /\ dup # NoPair
    /\ dup' = [dup EXCEPT !.key = k]
    /\ touched' = touched \cup {"dup"}
    /\ UNCHANGED <<ktype, orig, snap, opVars, sortVars, heapVars, twinVars>>

\* dup.value = v
SetDupValue(v) ==
    /\ dup # NoPair
    /\ dup' = [dup EXCEPT !.value = v]
    /\ touched' = touched \cup {"dup"}
    /\ UNCHANGED <<ktype, orig, snap, opVars, sortVars, heapVars, twinVars>>

NextClone ==
    \/ Clone
    \/ \E k \in Keys : SetOrigKey(k)
    \/ \E v \in Values : SetOrigValue(v)
    \/ \E k \in Keys : SetDupKey(k)
    \/ \E v \in Values : SetDupValue(v)

SpecClone == InitClone /\ [][NextClone]_vars

\* C7: the clone has the key and the value of the original, cloning leaves
\* the original unchanged, and assigning to the fields of one of the two
\* afterwards leaves the other as it was.
DuplicationFidelity ==
    snap # NoPair =>
        /\ "dup" \notin touched =>
              /\ dup.key = snap.key
              /\ dup.value = snap.value
        /\ "orig" \notin touched => orig = snap

\* a pair with value "B" was cloned and the clone's key and value were then
\* both reassigned, the original still being what it was
DuplicationFidelityWitness ==
    /\ snap # NoPair
    /\ snap.value = "B"
    /\ touched = {"dup"}
    /\ orig = snap
    /\ dup.key # snap.key
    /\ dup.value # snap.value

----------------------------------------------------------------------------
(* Sorting a Vec of pairs: tests::eq_is_respected                          *)

\* the keys of the test, and a payload type with two indistinguishable-to-
\* the-order inhabitants
SortKeys == {0, 1, 2, 6}
SortPairs == {KeyValuePair(k, v) : k \in SortKeys, v \in Values}

\* runs that need TKey: Ord start with TKey = i32
InitOrd ==
    /\ ktype = "i32"
    /\ regs = IdleRegs
    /\ orig = KeyValuePair(0, "A")
    /\ kind = "none"
    /\ InitRest

\* the multiset of the elements of a sequence
BagOf(s) ==
    [x \in {s[i] : i \in DOMAIN s} |-> Cardinality({i \in DOMAIN s : s[i] = x})]

KeysOf(s) == [i \in DOMAIN s |-> s[i].key]

\* slice::sort on a short slice is an insertion sort that compares with
\* PartialOrd::lt: the tail is moved left while it is less than its
\* predecessor
RECURSIVE InsertTail(_, _)
InsertTail(s, x) ==
    IF s = <<>> THEN <<x>>
    ELSE IF KvpLt(x, s[Len(s)])
         THEN Append(InsertTail(SubSeq(s, 1, Len(s) - 1), x), s[Len(s)])
         ELSE Append(s, x)

RECURSIVE InsertionSort(_, _)
InsertionSort(v, n) ==
    IF n = 0 THEN <<>> ELSE InsertTail(InsertionSort(v, n - 1), v[n])

SliceSort(v) == InsertionSort(v, Len(v))

\* a.push(KeyValuePair { key, value })
VecPush(p) ==
    /\ ~sorted
    /\ Len(vec) < MaxLen
    /\ vec' = Append(vec, p)
    /\ UNCHANGED <<ktype, input, sorted, opVars, cloneVars, heapVars, twinVars>>

\* a.sort()
VecSort ==
    /\ ~sorted
    /\ input' = vec
    /\ vec' = SliceSort(vec)
    /\ sorted' = TRUE
    /\ UNCHANGED <<ktype, opVars, cloneVars, heapVars, twinVars>>

NextSort ==
    \/ \E p \in SortPairs : VecPush(p)
    \/ VecSort

SpecSort == InitOrd /\ [][NextSort]_vars

\* C6: sorting pairs by the pair's own order yields a permutation of the
\* input whose keys are in non-decreasing order.
SortByKey ==
    sorted =>
        /\ BagOf(vec) = BagOf(input)
        /\ \A i \in 1 .. Len(vec) - 1 : vec[i].key <= vec[i + 1].key

\* the test's input 2, 1, 0, 6 has been sorted into 0, 1, 2, 6
SortByKeyWitness ==
    /\ sorted
    /\ KeysOf(input) = <<2, 1, 0, 6>>
    /\ KeysOf(vec) = <<0, 1, 2, 6>>

----------------------------------------------------------------------------
(* BinaryHeap: the crate's doc example                                     *)

HeapKeys == {0, 7, 22, 50}
HeapValues == {"A", "B", "C"}
HeapPairs == {KeyValuePair(k, v) : k \in HeapKeys, v \in HeapValues}

\* T::le of the element type: the pair, or the bare key
ElemLe(bare, a, b) == IF bare THEN KeyLe(a, b) ELSE KvpLe(a, b)

\* BinaryHeap::sift_up: the element e, taken out of position pos, moves up
\* while it is greater than its parent.  Positions are 0-based.
RECURSIVE SiftUp(_, _, _, _, _)
SiftUp(bare, d, start, pos, e) ==
    IF pos > start
    THEN LET parent == (pos - 1) \div 2
         IN  IF ElemLe(bare, e, d[parent + 1])
             THEN [d EXCEPT ![pos + 1] = e]
             ELSE SiftUp(bare, [d EXCEPT ![pos + 1] = d[parent + 1]],
                         start, parent, e)
    ELSE [d EXCEPT ![pos + 1] = e]

\* the loop of BinaryHeap::sift_down_to_bottom: the hole moves down to the
\* greater child until it has fewer than two children
RECURSIVE SiftDownLoop(_, _, _, _)
SiftDownLoop(bare, d, hole, e) ==
    LET end == Len(d)
        child == 2 * hole + 1
    IN  IF end >= 2 /\ child <= end - 2
        THEN LET c == IF ElemLe(bare, d[child + 1], d[child + 2])
                      THEN child + 1 ELSE child
             IN  SiftDownLoop(bare, [d EXCEPT ![hole + 1] = d[c + 1]], c, e)
        ELSE IF child = end - 1
             THEN SiftUp(bare, [d EXCEPT ![hole + 1] = d[child + 1]],
                         0, child, e)
             ELSE SiftUp(bare, d, 0, hole, e)

\* BinaryHeap::push
HeapPush(bare, d, x) == SiftUp(bare, Append(d, x), 0, Len(d), x)

\* BinaryHeap::pop: [res: Option<T>, data: the heap afterwards]
HeapPop(bare, d) ==
    IF d = <<>> THEN [res |-> None, data |-> d]
    ELSE LET item == d[Len(d)]
             rest == SubSeq(d, 1, Len(d) - 1)
         IN  IF rest = <<>> THEN [res |-> Some(item), data |-> rest]
             ELSE [res |-> Some(rest[1]),
                   data |-> SiftDownLoop(bare, rest, 0, item)]

\* heap.push(pair), before the first pop
Push(p) ==
    /\ popped = <<>>
    /\ Len(heap) < MaxHeap
    /\ heap' = HeapPush(FALSE, heap, p)
    /\ pushed' = Append(pushed, p)
    /\ UNCHANGED <<ktype, popped, opVars, cloneVars, sortVars, twinVars>>

\* heap.pop() on a non-empty heap
Pop ==
    /\ heap # <<>>
    /\ heap' = HeapPop(FALSE, heap).data
    /\ popped' = popped \o HeapPop(FALSE, heap).res
    /\ UNCHANGED <<ktype, pushed, opVars, cloneVars, sortVars, twinVars>>

NextHeap ==
    \/ \E p \in HeapPairs : Push(p)
    \/ Pop

SpecHeap == InitOrd /\ [][NextHeap]_vars

DistinctKeys(s) == \A i, j \in DOMAIN s : i # j => s[i].key # s[j].key

\* C5: pairs with distinct keys pushed into the heap are popped in strictly
\* decreasing key order, each with the value it was pushed with; the pairs
\* pushed are at all times exactly those in the heap and those popped.
MaxHeapExtraction ==
    /\ DistinctKeys(pushed) =>
          \A i \in 1 .. Len(popped) - 1 : popped[i].key > popped[i + 1].key
    /\ BagOf(pushed) = BagOf(heap) (+) BagOf(popped)
    /\ (heap = <<>>) => BagOf(popped) = BagOf(pushed)

\* the doc example: (50, A), (0, B), (22, C) pushed, then popped until empty
MaxHeapExtractionWitness ==
    /\ pushed = <<KeyValuePair(50, "A"), KeyValuePair(0, "B"),
                  KeyValuePair(22, "C")>>
    /\ heap = <<>>
    /\ popped = <<KeyValuePair(50, "A"), KeyValuePair(22, "C"),
                  KeyValuePair(0, "B")>>

----------------------------------------------------------------------------
(* A container of pairs run side by side with a container of bare keys     *)

\* the element type's eq, cmp and hash: the pair's, or the bare key's
ElemEq(bare, a, b) == IF bare THEN KeyEq(a, b) ELSE KvpEq(a, b)
ElemCmp(bare, a, b) == IF bare THEN KeyCmp(a, b) ELSE KvpCmp(a, b)
ElemHash(bare, a, state) ==
    IF bare THEN KeyHash(a, state) ELSE KvpHash(a, state)

\* Hasher::finish: here the sum of the words written
RECURSIVE Finish(_)
Finish(state) ==
    IF state = <<>> THEN 0 ELSE Head(state) + Finish(Tail(state))

\* the bucket an element belongs to
Bucket(bare, x) == Finish(ElemHash(bare, x, <<>>)) % NumBuckets

\* the elements of a bucket's chain that are eq to x
Found(bare, chain, x) == {i \in DOMAIN chain : ElemEq(bare, chain[i], x)}

RemoveAt(chain, i) ==
    SubSeq(chain, 1, i - 1) \o SubSeq(chain, i + 1, Len(chain))

\* HashSet::contains
SetContains(bare, t, x) == Found(bare, t[Bucket(bare, x)], x) # {}

\* HashSet::insert: [res: whether x was newly inserted, data]
SetInsert(bare, t, x) ==
    IF SetContains(bare, t, x) THEN [res |-> FALSE, data |-> t]
    ELSE [res |-> TRUE,
          data |-> [t EXCEPT ![Bucket(bare, x)] = Append(@, x)]]

\* HashSet::remove: [res: whether x was present, data]
SetRemove(bare, t, x) ==
    LET b == Bucket(bare, x)
        hit == Found(bare, t[b], x)
    IN  IF hit = {} THEN [res |-> FALSE, data |-> t]
        ELSE [res |-> TRUE,
              data |-> [t EXCEPT ![b] =
                          RemoveAt(@, CHOOSE i \in hit : \A j \in hit : i <= j)]]

\* the search of a B-tree leaf: the keys are scanned in order and compared
\* with cmp; [found, idx] is the position found or the insertion position
RECURSIVE LeafSearch(_, _, _, _)
LeafSearch(bare, leaf, x, i) ==
    IF i > Len(leaf) THEN [found |-> FALSE, idx |-> i]
    ELSE IF ElemCmp(bare, x, leaf[i]) = "Greater"
         THEN LeafSearch(bare, leaf, x, i + 1)
         ELSE [found |-> ElemCmp(bare, x, leaf[i]) = "Equal", idx |-> i]

\* BTreeSet::contains, on a tree that is a single leaf
TreeContains(bare, leaf, x) == LeafSearch(bare, leaf, x, 1).found

\* BTreeSet::insert
TreeInsert(bare, leaf, x) ==
    LET at == LeafSearch(bare, leaf, x, 1)
    IN  IF at.found THEN [res |-> FALSE, data |-> leaf]
        ELSE [res |-> TRUE,
              data |-> SubSeq(leaf, 1, at.idx - 1) \o <<x>>
                         \o SubSeq(leaf, at.idx, Len(leaf))]

\* BTreeSet::remove
TreeRemove(bare, leaf, x) ==
    LET at == LeafSearch(bare, leaf, x, 1)
    IN  IF at.found THEN [res |-> TRUE, data |-> RemoveAt(leaf, at.idx)]
        ELSE [res |-> FALSE, data |-> leaf]

InitTwin ==
    /\ ktype = "i32"
    /\ regs = IdleRegs
    /\ orig = KeyValuePair(0, "A")
    /\ kind \in {"heap", "hash", "btree"}
    /\ InitRest

\* heap.push(KeyValuePair::new(k, v)) and bare.push(k)
TwinPush(k, v) ==
    /\ kind = "heap"
    /\ Len(heap) < MaxHeap
    /\ heap' = HeapPush(FALSE, heap, KvpNew(k, v))
    /\ bareHeap' = HeapPush(TRUE, bareHeap, k)
    /\ answers' = [op |-> "push", pair |-> None, bare |-> None]
    /\ UNCHANGED <<ktype, kind, pushed, popped, set, bareSet, tree, bareTree,
                   opVars, cloneVars, sortVars>>

\* heap.pop() and bare.pop()
TwinPop ==
    /\ kind = "heap"
    /\ heap' = HeapPop(FALSE, heap).data
    /\ bareHeap' = HeapPop(TRUE, bareHeap).data
    /\ answers' = [op |-> "pop", pair |-> HeapPop(FALSE, heap).res,
                    bare |-> HeapPop(TRUE, bareHeap).res]
    /\ UNCHANGED <<ktype, kind, pushed, popped, set, bareSet, tree, bareTree,
                   opVars, cloneVars, sortVars>>

\* set.insert(KeyValuePair::new(k, v)) and bare.insert(k), on the hashed or
\* the ordered set
TwinInsert(k, v) ==
    /\ \/ /\ kind = "hash"
          /\ set' = SetInsert(FALSE, set, KvpNew(k, v)).data
          /\ bareSet' = SetInsert(TRUE, bareSet, k).data
          /\ answers' = [op |-> "insert",
                          pair |-> SetInsert(FALSE, set, KvpNew(k, v)).res,
                          bare |-> SetInsert(TRUE, bareSet, k).res]
          /\ UNCHANGED <<tree, bareTree>>
       \/ /\ kind = "btree"
          /\ tree' = TreeInsert(FALSE, tree, KvpNew(k, v)).data
          /\ bareTree' = TreeInsert(TRUE, bareTree, k).data
          /\ answers' = [op |-> "insert",
                          pair |-> TreeInsert(FALSE, tree, KvpNew(k, v)).res,
                          bare |-> TreeInsert(TRUE, bareTree, k).res]
          /\ UNCHANGED <<set, bareSet>>
    /\ UNCHANGED <<ktype, kind, heapVars, bareHeap, opVars, cloneVars, sortVars>>

\* set.remove(&KeyValuePair::new(k, v)) and bare.remove(&k)
TwinRemove(k, v) ==
    /\ \/ /\ kind = "hash"
          /\ set' = SetRemove(FALSE, set, KvpNew(k, v)).data
          /\ bareSet' = SetRemove(TRUE, bareSet, k).data
          /\ answers' = [op |-> "remove",
                          pair |-> SetRemove(FALSE, set, KvpNew(k, v)).res,
                          bare |-> SetRemove(TRUE, bareSet, k).res]
          /\ UNCHANGED <<tree, bareTree>>
       \/ /\ kind = "btree"
          /\ tree' = TreeRemove(FALSE, tree, KvpNew(k, v)).data
          /\ bareTree' = TreeRemove(TRUE, bareTree, k).data
          /\ answers' = [op |-> "remove",
                          pair |-> TreeRemove(FALSE, tree, KvpNew(k, v)).res,
                          bare |-> TreeRemove(TRUE, bareTree, k).res]
          /\ UNCHANGED <<set, bareSet>>
    /\ UNCHANGED <<ktype, kind, heapVars, bareHeap, opVars, cloneVars, sortVars>>

\* set.contains(&KeyValuePair::new(k, v)) and bare.contains(&k)
TwinContains(k, v) ==
    /\ \/ /\ kind = "hash"
          /\ answers' = [op |-> "contains",
                          pair |-> SetContains(FALSE, set, KvpNew(k, v)),
                          bare |-> SetContains(TRUE, bareSet, k)]
       \/ /\ kind = "btree"
          /\ answers' = [op |-> "contains",
                          pair |-> TreeContains(FALSE, tree, KvpNew(k, v)),
                          bare |-> TreeContains(TRUE, bareTree, k)]
    /\ UNCHANGED <<ktype, kind, heapVars, bareHeap, set, bareSet, tree,
                   bareTree, opVars, cloneVars, sortVars>>

NextTwin ==
    \/ \E k \in IntKeys, v \in Values : TwinPush(k, v)
    \/ TwinPop
    \/ \E k \in IntKeys, v \in Values : TwinInsert(k, v)
    \/ \E k \in IntKeys, v \in Values : TwinRemove(k, v)
    \/ \E k \in IntKeys, v \in Values : TwinContains(k, v)

SpecTwin == InitTwin /\ [][NextTwin]_vars

\* C8: under the same operations, a container of pairs and the same kind of
\* container of bare keys hold the same keys, give the same membership
\* answers and extract the same key.
IndistinguishableFromBareKey ==
    /\ KeysOf(heap) = bareHeap
    /\ \A b \in DOMAIN set : KeysOf(set[b]) = bareSet[b]
    /\ KeysOf(tree) = bareTree
    /\ answers.op \in {"insert", "remove", "contains"}
          => answers.pair = answers.bare
    /\ answers.op = "pop" =>
          /\ answers.pair = None <=> answers.bare = None
          /\ answers.pair # None => answers.pair[1].key = answers.bare[1]

\* a pair was refused by a set holding the same key with another value, and
\* a heap holding one key under two values has popped it
IndistinguishableFromBareKeyWitness ==
    \/ /\ kind \in {"hash", "btree"}
       /\ answers.op = "insert"
       /\ answers.pair = FALSE
       /\ \E p \in Pairs :
             /\ p.value = "B"
             /\ \/ \E b \in DOMAIN set : \E i \in DOMAIN set[b] : set[b][i] = p
                \/ \E i \in DOMAIN tree : tree[i] = p
       /\ Len(tree) + Len(set[0]) >= 2
    \/ /\ kind = "heap"
       /\ answers.op = "pop"
       /\ answers.pair # None
       /\ heap # <<>>
       /\ heap[1].key = answers.bare[1]
       /\ heap[1].value # answers.pair[1].value

----------------------------------------------------------------------------
(* Properties of the forwarded operations                                  *)

\* C1: the result of eq on two pairs is exactly TKey's eq on their keys,
\* whatever the two values are.
KeyOnlyEquality ==
    last.op = "eq" =>
        last.res = KeyEq(regs[last.args[1]].key, regs[last.args[2]].key)

\* eq has been applied to two pairs with equal keys and different values,
\* and to a NaN-keyed pair and itself
KeyOnlyEqualityWitness ==
    /\ last.op = "eq"
    /\ \/ /\ regs[last.args[1]].key = regs[last.args[2]].key
          /\ regs[last.args[1]].value # regs[last.args[2]].value
          /\ last.res = TRUE
       \/ /\ regs[last.args[1]].key = NaN
          /\ last.args[1] = last.args[2]
          /\ last.res = FALSE

\* C2: the result of cmp on two pairs is exactly TKey's cmp on their keys;
\* pairs with equal keys and different values compare Equal.
KeyOnlyOrdering ==
    last.op = "cmp" =>
        /\ last.res = KeyCmp(regs[last.args[1]].key, regs[last.args[2]].key)
        /\ regs[last.args[1]].key = regs[last.args[2]].key
              => last.res = "Equal"

\* cmp has been applied to two pairs with equal keys and different values
KeyOnlyOrderingWitness ==
    /\ last.op = "cmp"
    /\ regs[last.args[1]].key = regs[last.args[2]].key
    /\ regs[last.args[1]].value # regs[last.args[2]].value
    /\ last.res = "Equal"

\* C3: pairs that are equal leave a hasher, started from the same state,
\* in the same state; hashing a pair is feeding the bare key to the hasher.
EqualityHashConsistency ==
    /\ last.op = "hash" =>
          last.res = KeyHash(regs[last.args[1]].key, last.args[2])
    /\ ktype = "i32" =>
          \A i, j \in Regs, h0 \in HasherStates :
              KvpEq(regs[i], regs[j])
                  => KvpHash(regs[i], h0) = KvpHash(regs[j], h0)

\* a pair has been hashed while an equal pair with another value exists
EqualityHashConsistencyWitness ==
    /\ last.op = "hash"
    /\ \E j \in Regs :
          /\ KvpEq(regs[last.args[1]], regs[j])
          /\ regs[last.args[1]].value # regs[j].value

\* C4: the result of partial_cmp on two pairs is exactly TKey's partial_cmp
\* on their keys; it is None exactly when the keys are incomparable.
PartialOrderingDelegation ==
    last.op = "partial_cmp" =>
        /\ last.res
             = KeyPartialCmp(regs[last.args[1]].key, regs[last.args[2]].key)
        /\ last.res = None
             <=> KeyPartialCmp(regs[last.args[1]].key,
                               regs[last.args[2]].key) = None

\* partial_cmp has returned None for a NaN key against a finite key, with
\* different values attached
PartialOrderingDelegationWitness ==
    /\ last.op = "partial_cmp"
    /\ last.res = None
    /\ regs[last.args[1]].key = NaN
    /\ regs[last.args[2]].key # NaN
    /\ regs[last.args[1]].value # regs[last.args[2]].value

\* C9: new(k, v) returns the pair whose key is k and whose value is v, the
\* pair the struct literal builds; every key and value is accepted.
ConstructionTransparent ==
    /\ last.op = "new" =>
          /\ last.res.key = last.args[2]
          /\ last.res.value = last.args[3]
          /\ last.res = KeyValuePair(last.args[2], last.args[3])
          /\ regs[last.args[1]] = last.res
    /\ \A k \in Keys, v \in Values : KvpNew(k, v) \in Pairs

\* new has built a pair from a NaN key
ConstructionTransparentWitness ==
    /\ last.op = "new"
    /\ last.args[2] = NaN
    /\ last.args[3] = "B"
    /\ regs[last.args[1]] = [key |-> NaN, value |-> "B"]

\* C10: for a key type whose eq, partial_cmp and cmp agree, on all pairs
\* partial_cmp is Some(cmp) and eq holds exactly when cmp is Equal; cmp is a
\* total preorder whose classes are the pairs sharing a key.
ForwardedComparisonsConsistent ==
    ktype = "i32" =>
        \A i, j, k \in Regs :
            LET a == regs[i]
                b == regs[j]
                c == regs[k]
            IN  /\ KvpPartialCmp(a, b) = Some(KvpCmp(a, b))
                /\ KvpEq(a, b) <=> KvpCmp(a, b) = "Equal"
                /\ KvpCmp(a, a) = "Equal"
                /\ KvpCmp(a, b) = "Less" <=> KvpCmp(b, a) = "Greater"
                /\ KvpCmp(a, b) = "Equal" <=> KvpCmp(b, a) = "Equal"
                /\ (KvpCmp(a, b) # "Greater" /\ KvpCmp(b, c) # "Greater")
                      => KvpCmp(a, c) # "Greater"
                /\ KvpCmp(a, b) = "Equal" <=> a.key = b.key

\* cmp has returned Equal for two different pairs: the order is not
\* antisymmetric in the value
ForwardedComparisonsConsistentWitness ==
    /\ ktype = "i32"
    /\ last.op = "cmp"
    /\ last.res = "Equal"
    /\ regs[last.args[1]] # regs[last.args[2]]
    /\ \E k \in Regs : KvpCmp(regs[last.args[1]], regs[k]) = "Less"

====
